---- MODULE Spec2Model ----
(***************************************************************************)
(* A model of aapt2's post-processing configuration parser                 *)
(* (tools/aapt2/configuration/ConfigurationParser.cpp).                    *)
(*                                                                         *)
(* Strings are sequences of tokens.  A token is one character ("a", ".",   *)
(* "/", " ", a digit), one placeholder of the name formatter               *)
(* ("${abi}", ...), or, inside group entries only, one whole word          *)
(* ("x86", "xhdpi").  std::string::find, replace, rfind and EndsWith act   *)
(* on the tokens as they act on the characters, as long as no character    *)
(* of a placeholder occurs on its own.                                     *)
(*                                                                         *)
(* Maybe<T> is a sequence of length 0 (no value) or 1 (the value).         *)
(***************************************************************************)
EXTENDS Integers, Sequences, FiniteSets, TLC

\* pc          where the call of Parse stands: "start", "extract" (the
\*             executor is walking the document), "done" (Parse returned),
\*             "aborted" (a handler threw)
\* apk_path    the argument of Parse
\* config      the PostProcessingConfiguration being populated
\* exec_error  the executor's error flag: some handler returned false
\* diag        the errors reported to the diagnostics sink, in order
\* seen        history: the group elements handled so far, in document order
\* examined    history: the number of artifacts handed to ToOutputArtifact
\* returned    what Parse returned: no value, or the list of OutputArtifact
VARIABLES pc, apk_path, config, exec_error, diag, seen, examined, returned

vars == <<pc, apk_path, config, exec_error, diag, seen, examined, returned>>

----------------------------------------------------------------------------
(* Maybe<T> *)

Nothing == <<>>

Just(v) == <<v>>

Has(m) == Len(m) = 1

Val(m) == m[1]

----------------------------------------------------------------------------
(* std::string and StringPiece operations on token sequences *)

\* std::string::find of a one-token needle: the first position, or 0 (npos).
Find(s, p) ==
  IF \E i \in 1..Len(s) : s[i] = p
    THEN CHOOSE i \in 1..Len(s) : s[i] = p /\ \A j \in 1..(i - 1) : s[j] # p
    ELSE 0

\* std::string::replace(offset, 1 token, value)
Replace(s, off, v) == SubSeq(s, 1, off - 1) \o v \o SubSeq(s, off + 1, Len(s))

\* std::string::rfind(sub): the last position where sub occurs (Len(s) + 1 for
\* an empty sub), or 0 (npos).
RFind(s, sub) ==
  LET hits == {i \in 1..(Len(s) + 1) :
                 /\ i + Len(sub) - 1 <= Len(s)
                 /\ SubSeq(s, i, i + Len(sub) - 1) = sub}
  IN IF hits = {} THEN 0 ELSE CHOOSE i \in hits : \A j \in hits : j <= i

\* util::EndsWith
EndsWith(s, suffix) ==
  /\ Len(suffix) <= Len(s)
  /\ SubSeq(s, Len(s) - Len(suffix) + 1, Len(s)) = suffix

\* util::TrimWhitespace
RECURSIVE TrimLeft(_)
TrimLeft(s) == IF s # <<>> /\ Head(s) = " " THEN TrimLeft(Tail(s)) ELSE s

RECURSIVE TrimRight(_)
TrimRight(s) ==
  IF s # <<>> /\ s[Len(s)] = " " THEN TrimRight(SubSeq(s, 1, Len(s) - 1)) ELSE s

TrimWhitespace(s) == TrimRight(TrimLeft(s))

\* file::GetFilename: the text after the last directory separator.
GetFilename(path) ==
  LET seps == {i \in 1..Len(path) : path[i] = "/"}
  IN IF seps = {} THEN path
     ELSE SubSeq(path, (CHOOSE i \in seps : \A j \in seps : j <= i) + 1, Len(path))

\* file::GetExtension: from the first '.' of the file name to its end, or
\* empty when the file name has no '.'.
GetExtension(path) ==
  LET filename == GetFilename(path)
      dot == Find(filename, ".")
  IN IF dot = 0 THEN <<>> ELSE SubSeq(filename, dot, Len(filename))

----------------------------------------------------------------------------
(* Diagnostics: the errors sent to the sink, in order.  Notes and warnings *)
(* are not recorded.                                                       *)

Error(msg, what) == [msg |-> msg, what |-> what]

----------------------------------------------------------------------------
(* The name formatter *)

\* ReplacePlaceholder as it would be if a value with no placeholder to take it
\* were accepted.
ReplacePlaceholderLenient(placeholder, value, name) ==
  LET offset == Find(name, placeholder)
  IN IF offset = 0 THEN [ok |-> TRUE, name |-> name, errs |-> <<>>]
     ELSE IF ~Has(value)
       THEN [ok |-> FALSE, name |-> name,
             errs |-> <<Error("Placeholder present but no value for artifact",
                              <<placeholder>>)>>]
     ELSE IF Find(Replace(name, offset, Val(value)), placeholder) # 0
       THEN [ok |-> FALSE, name |-> Replace(name, offset, Val(value)),
             errs |-> <<Error("Placeholder present multiple times", <<placeholder>>)>>]
     ELSE [ok |-> TRUE, name |-> Replace(name, offset, Val(value)), errs |-> <<>>]

\* ReplacePlaceholder as it would be if it did not look for a second
\* occurrence after the replacement.
ReplacePlaceholderOnce(placeholder, value, name) ==
  LET offset == Find(name, placeholder)
  IN IF offset = 0
       THEN IF Has(value)
              THEN [ok |-> FALSE, name |-> name,
                    errs |-> <<Error("Missing placeholder for artifact", <<placeholder>>)>>]
              ELSE [ok |-> TRUE, name |-> name, errs |-> <<>>]
     ELSE IF ~Has(value)
       THEN [ok |-> FALSE, name |-> name,
             errs |-> <<Error("Placeholder present but no value for artifact",
                              <<placeholder>>)>>]
     ELSE [ok |-> TRUE, name |-> Replace(name, offset, Val(value)), errs |-> <<>>]

ReplacePlaceholder(placeholder, value, name) ==
  LET offset == Find(name, placeholder)
      found == offset # 0
  IN IF ~found
       THEN IF Has(value)
              THEN [ok |-> FALSE, name |-> name,
                    errs |-> <<Error("Missing placeholder for artifact", <<placeholder>>)>>]
              ELSE [ok |-> TRUE, name |-> name, errs |-> <<>>]
       ELSE IF ~Has(value)
              THEN [ok |-> FALSE, name |-> name,
                    errs |-> <<Error("Placeholder present but no value for artifact",
                                     <<placeholder>>)>>]
              ELSE LET replaced == Replace(name, offset, Val(value))
                   IN IF Find(replaced, placeholder) # 0
                        THEN [ok |-> FALSE, name |-> replaced,
                              errs |-> <<Error("Placeholder present multiple times",
                                               <<placeholder>>)>>]
                        ELSE [ok |-> TRUE, name |-> replaced, errs |-> <<>>]

\* ToBaseNameExt as it would be if the extension were appended without
\* looking at the end of the name.
ToBaseNameExtAppend(result, ext) ==
  IF Find(result, "${ext}") # 0
    THEN ReplacePlaceholder("${ext}", Just(Tail(ext)), result)
    ELSE [ok |-> TRUE, name |-> result \o ext, errs |-> <<>>]

\* The extension step of ToBaseName (lines 348-360), on the name left by the
\* base name step.
ToBaseNameExt(result, ext) ==
  IF Find(result, "${ext}") # 0
    THEN ReplacePlaceholder("${ext}", Just(Tail(ext)), result)
    ELSE IF ~EndsWith(result, ext)
           THEN [ok |-> TRUE, name |-> result \o ext, errs |-> <<>>]
           ELSE [ok |-> TRUE, name |-> result, errs |-> <<>>]

\* ToBaseName after the base name step returned r (lines 343-360).
ToBaseNameRest(r, ext) == IF ~r.ok THEN r ELSE ToBaseNameExt(r.name, ext)

\* The text of apk_name before its extension (lines 335-337).
BaseNameOf(apk_name, ext) ==
  LET end_index == RFind(apk_name, ext)
  IN IF end_index # 0 THEN SubSeq(apk_name, 1, end_index - 1) ELSE <<>>

\* Maybe<StringPiece> of the base name: no value when it is empty (line 342).
MaybeBaseName(base_name) == IF base_name = <<>> THEN Nothing ELSE Just(base_name)

ToBaseName(result, apk_name) ==
  IF Find(result, "${basename}") # 0
    THEN ToBaseNameRest(
           ReplacePlaceholder("${basename}",
             MaybeBaseName(BaseNameOf(apk_name, GetExtension(apk_name))), result),
           GetExtension(apk_name))
    ELSE ToBaseNameExt(result, GetExtension(apk_name))

\* The six axis placeholders of ToArtifactName with the artifact field each
\* takes its value from, in the order of the calls.
AxisPlaceholders ==
  << <<"${abi}", "abi_group">>,
     <<"${density}", "screen_density_group">>,
     <<"${locale}", "locale_group">>,
     <<"${sdk}", "android_sdk_group">>,
     <<"${feature}", "device_feature_group">>,
     <<"${gl}", "gl_texture_group">> >>

\* The calls of ReplacePlaceholder from the k-th on, each returning at the
\* first failure.
\* The outcome of one more call: its name, with the errors so far.
After(r, step) == [ok |-> step.ok, name |-> step.name, errs |-> r.errs \o step.errs]

\* ReplaceAxes as it would be if the last axis, the texture group, were
\* left out.
RECURSIVE ReplaceAxesNoGl(_, _, _)
ReplaceAxesNoGl(artifact, r, k) ==
  IF k > Len(AxisPlaceholders) - 1 \/ ~r.ok THEN r
  ELSE ReplaceAxesNoGl(artifact,
         After(r, ReplacePlaceholder(AxisPlaceholders[k][1],
                                     artifact[AxisPlaceholders[k][2]], r.name)),
         k + 1)

RECURSIVE ReplaceAxes(_, _, _)
ReplaceAxes(artifact, r, k) ==
  IF k > Len(AxisPlaceholders) \/ ~r.ok THEN r
  ELSE ReplaceAxes(artifact,
         After(r, ReplacePlaceholder(AxisPlaceholders[k][1],
                                     artifact[AxisPlaceholders[k][2]], r.name)),
         k + 1)

ToArtifactName(artifact, format, apk_name) ==
  ReplaceAxes(artifact, ToBaseName(format, apk_name), 1)

\* ConfiguredArtifact::Name; the caller has checked that the name is set.
Name(artifact, apk_name) ==
  IF ~Has(artifact.name)
    THEN [ok |-> FALSE, name |-> <<>>, errs |-> <<>>]
    ELSE ToBaseName(Val(artifact.name), apk_name)

----------------------------------------------------------------------------
(* The configuration and its artifacts *)

\* Group<T>: a map from label to list, here a function whose domain is the
\* set of labels present.
EmptyGroup == [l \in {} |-> <<>>]

\* operator[] of the map followed by an assignment of the whole list.
Put(groups, label, list) == [l \in DOMAIN groups \cup {label} |->
                               IF l = label THEN list ELSE groups[l]]

EmptyConfig ==
  [artifacts |-> <<>>, artifact_format |-> Nothing,
   abi_groups |-> EmptyGroup, screen_density_groups |-> EmptyGroup,
   locale_groups |-> EmptyGroup, android_sdk_groups |-> EmptyGroup,
   gl_texture_groups |-> EmptyGroup, device_feature_groups |-> EmptyGroup]

\* A value-initialised ConfiguredArtifact.  Two fields are history, kept to
\* state the claims: attr_version is the version attribute as the element
\* gave it, decl the position of the element among the artifact elements.
EmptyArtifact ==
  [name |-> Nothing, version |-> 0,
   abi_group |-> Nothing, screen_density_group |-> Nothing,
   locale_group |-> Nothing, android_sdk_group |-> Nothing,
   gl_texture_group |-> Nothing, device_feature_group |-> Nothing,
   attr_version |-> Nothing, decl |-> 0]

\* operator< and operator== of ConfiguredArtifact
LessThan(lhs, rhs) == lhs.version < rhs.version

Equal(lhs, rhs) == lhs.version = rhs.version

\* Sort as it would be if the copy were left in declaration order.
SortNone(s) == s

\* std::sort with operator<.  The order of equal elements is unspecified in
\* std::sort; it is never observed, since Parse returns when two are equal.
RECURSIVE Sort(_)
Sort(s) ==
  IF s = <<>> THEN <<>>
  ELSE LET rest == Sort(Tail(s))
           before == {i \in 1..Len(rest) : ~LessThan(Head(s), rest[i])}
           n == Cardinality(before)
       IN SubSeq(rest, 1, n) \o <<Head(s)>> \o SubSeq(rest, n + 1, Len(rest))

\* HasAdjacentEqual as it would be if the last pair were left out.
HasAdjacentEqualShort(s) == \E i \in 1..(Len(s) - 2) : Equal(s[i], s[i + 1])

\* std::adjacent_find(...) != end()
HasAdjacentEqual(s) == \E i \in 1..(Len(s) - 1) : Equal(s[i], s[i + 1])

\* CopyXmlReferences as it would be if the copy stopped one entry early.
CopyXmlReferencesShort(name, groups) ==
  IF ~Has(name) THEN [ok |-> TRUE, target |-> <<>>]
  ELSE IF Val(name) \notin DOMAIN groups THEN [ok |-> FALSE, target |-> <<>>]
  ELSE [ok |-> TRUE,
        target |-> SubSeq(groups[Val(name)], 1, Len(groups[Val(name)]) - 1)]

CopyXmlReferences(name, groups) ==
  IF ~Has(name) THEN [ok |-> TRUE, target |-> <<>>]
  ELSE IF Val(name) \notin DOMAIN groups THEN [ok |-> FALSE, target |-> <<>>]
  ELSE [ok |-> TRUE, target |-> groups[Val(name)]]

\* The errors of one failed lookup, or none.
LookupError(copied, msg, name) ==
  IF copied.ok THEN <<>> ELSE <<Error(msg, Val(name))>>

\* The android_sdk_groups lookup of ToOutputArtifact (lines 305-314).
SdkLookup(artifact, cfg) ==
  IF ~Has(artifact.android_sdk_group) THEN [ok |-> TRUE, target |-> Nothing]
  ELSE IF Val(artifact.android_sdk_group) \notin DOMAIN cfg.android_sdk_groups
         THEN [ok |-> FALSE, target |-> Nothing]
         ELSE [ok |-> TRUE,
               target |-> Just(cfg.android_sdk_groups[Val(artifact.android_sdk_group)])]

NoOutput == [ok |-> FALSE, artifact |-> <<>>, errs |-> <<>>]

\* ToOutputArtifact once the name is computed (lines 261-319).
Named(artifact, cfg, artifact_name) ==
  IF ~artifact_name.ok
    THEN [NoOutput EXCEPT !.errs = artifact_name.errs \o
            <<Error("Could not determine split APK artifact name", <<>>)>>]
    ELSE
      LET abis == CopyXmlReferences(artifact.abi_group, cfg.abi_groups)
          locales == CopyXmlReferences(artifact.locale_group, cfg.locale_groups)
          densities == CopyXmlReferences(artifact.screen_density_group,
                                         cfg.screen_density_groups)
          features == CopyXmlReferences(artifact.device_feature_group,
                                        cfg.device_feature_groups)
          textures == CopyXmlReferences(artifact.gl_texture_group,
                                        cfg.gl_texture_groups)
          sdk == SdkLookup(artifact, cfg)
          errs ==
            LookupError(abis, "Could not lookup required ABIs", artifact.abi_group)
            \o LookupError(locales, "Could not lookup required locales",
                           artifact.locale_group)
            \o LookupError(densities, "Could not lookup required screen densities",
                           artifact.screen_density_group)
            \o LookupError(features, "Could not lookup required device features",
                           artifact.device_feature_group)
            \o LookupError(textures,
                           "Could not lookup required OpenGL texture formats",
                           artifact.gl_texture_group)
            \o LookupError(sdk, "Could not lookup required Android SDK version",
                           artifact.android_sdk_group)
      IN [ok |-> errs = <<>>,
          artifact |->
            [name |-> artifact_name.name,
             abis |-> abis.target, locales |-> locales.target,
             screen_densities |-> densities.target,
             features |-> features.target, textures |-> textures.target,
             android_sdk |-> sdk.target, decl |-> artifact.decl],
          errs |-> artifact_name.errs \o errs]

\* ToOutputArtifact as it would be if the global format, when there is one,
\* were taken before the artifact's own name.
ToOutputArtifactFormatFirst(artifact, apk_name, cfg) ==
  IF ~Has(artifact.name) /\ ~Has(cfg.artifact_format)
    THEN [NoOutput EXCEPT !.errs =
            <<Error("Artifact does not have a name and no global name template defined",
                    <<>>)>>]
    ELSE Named(artifact, cfg,
               IF Has(cfg.artifact_format)
                 THEN ToArtifactName(artifact, Val(cfg.artifact_format), apk_name)
                 ELSE Name(artifact, apk_name))

ToOutputArtifact(artifact, apk_name, cfg) ==
  IF ~Has(artifact.name) /\ ~Has(cfg.artifact_format)
    THEN [NoOutput EXCEPT !.errs =
            <<Error("Artifact does not have a name and no global name template defined",
                    <<>>)>>]
    ELSE Named(artifact, cfg,
               IF Has(artifact.name) THEN Name(artifact, apk_name)
               ELSE ToArtifactName(artifact, Val(cfg.artifact_format), apk_name))

\* The body of the loop of Parse (lines 453-459).
Collect(acc, output_artifact) ==
  [output_artifacts |->
     IF output_artifact.ok
       THEN Append(acc.output_artifacts, output_artifact.artifact)
       ELSE acc.output_artifacts,
   has_errors |-> acc.has_errors \/ ~output_artifact.ok,
   errs |-> acc.errs \o output_artifact.errs]

\* The loop of Parse over the artifacts from the i-th on (lines 452-460).
RECURSIVE ResolveLoop(_, _, _, _, _)
ResolveLoop(artifacts, i, apk_name, cfg, acc) ==
  IF i > Len(artifacts) THEN acc
  ELSE ResolveLoop(artifacts, i + 1, apk_name, cfg,
                   Collect(acc, ToOutputArtifact(artifacts[i], apk_name, cfg)))

\* Resolved as it would be if Parse returned the artifacts that did resolve.
ResolvedPartial(done, n) ==
  [result |-> Just(done.output_artifacts), errs |-> done.errs, examined |-> n]

\* What Parse returns after the loop (lines 462-465).
Resolved(done, n) ==
  [result |-> IF done.has_errors THEN Nothing ELSE Just(done.output_artifacts),
   errs |-> done.errs,
   examined |-> n]

\* Parse from the sorted copy on (lines 439-465).
ParseSorted(artifacts, cfg, path) ==
  IF HasAdjacentEqual(artifacts)
    THEN [result |-> Nothing,
          errs |-> <<Error("Configuration has duplicate versions", <<>>)>>,
          examined |-> 0]
    ELSE Resolved(ResolveLoop(artifacts, 1, GetFilename(path), cfg,
                    [output_artifacts |-> <<>>, has_errors |-> FALSE, errs |-> <<>>]),
                  Len(artifacts))

\* ConfigurationParser::Parse once ExtractConfiguration has returned cfg:
\* the returned list (or none), the errors reported, the number of artifacts
\* handed to ToOutputArtifact.
ParseConfig(cfg, path) == ParseSorted(Sort(cfg.artifacts), cfg, path)

----------------------------------------------------------------------------
(* The XML tree handed to the handlers.  A node is an element (name,        *)
(* attributes, children) or a text node (name "#text", text).               *)

Attr(n, v) == [name |-> n, value |-> v]

Element(n, attributes, children) ==
  [name |-> n, attributes |-> attributes, children |-> children, text |-> <<>>]

Text(t) == [name |-> "#text", attributes |-> <<>>, children |-> <<>>, text |-> t]

IsText(node) == node.name = "#text"

IsElement(node) == node.name # "#text"

\* Element::GetChildElements
GetChildElements(el) == SelectSeq(el.children, IsElement)

\* The loop "for node in children: if node is Text: use it; break": the text
\* of the first text node, if there is one.
FirstText(el) ==
  LET texts == SelectSeq(el.children, IsText)
  IN IF texts = <<>> THEN Nothing ELSE Just(Head(texts).text)

\* The value of the first attribute of that name, if there is one.
FirstAttr(el, n) ==
  LET named == SelectSeq(el.attributes, LAMBDA a : a.name = n)
  IN IF named = <<>> THEN Nothing ELSE Just(Head(named).value)

\* GetLabel: the label, empty when there is none, and the error reported then.
GetLabel(el) ==
  LET found == FirstAttr(el, "label")
      label == IF Has(found) THEN Val(found) ELSE <<>>
  IN [label |-> label,
      errs |-> IF label = <<>>
                 THEN <<Error("No label found for element", <<el.name>>)>>
                 ELSE <<>>]

----------------------------------------------------------------------------
(* Conversions of attribute and entry text *)

Digit ==
  [d \in {"0", "1", "2", "3", "4", "5", "6", "7", "8", "9"} |->
     CASE d = "0" -> 0 [] d = "1" -> 1 [] d = "2" -> 2 [] d = "3" -> 3 [] d = "4" -> 4
       [] d = "5" -> 5 [] d = "6" -> 6 [] d = "7" -> 7 [] d = "8" -> 8 [] d = "9" -> 9]

\* The value of the longest prefix of digits, after acc.
RECURSIVE DigitsValue(_, _)
DigitsValue(s, acc) ==
  IF s = <<>> \/ Head(s) \notin DOMAIN Digit THEN acc
  ELSE DigitsValue(Tail(s), 10 * acc + Digit[Head(s)])

\* std::stoi: leading whitespace, an optional sign, then digits up to the
\* first token that is none; no value when there is no digit (it throws
\* std::invalid_argument).
Stoi(s) ==
  LET t == TrimLeft(s)
      signed == t # <<>> /\ Head(t) \in {"-", "+"}
      digits == IF signed THEN Tail(t) ELSE t
  IN IF digits = <<>> \/ Head(digits) \notin DOMAIN Digit THEN Nothing
     ELSE IF signed /\ Head(t) = "-" THEN Just(0 - DigitsValue(digits, 0))
     ELSE Just(DigitsValue(digits, 0))

\* ResourceUtils::ParseSdkVersion: the integer the trimmed text spells, or no
\* value.
ParseSdkVersion(s) ==
  LET t == TrimWhitespace(s)
  IN IF t # <<>> /\ \A i \in 1..Len(t) : t[i] \in DOMAIN Digit
       THEN Just(DigitsValue(t, 0))
       ELSE Nothing

kStringToAbiMap ==
  [w \in {"armeabi", "armeabi-v7a", "arm64-v8a", "x86", "x86_64", "mips", "mips64",
          "universal"} |->
     CASE w = "armeabi" -> "kArmeV6" [] w = "armeabi-v7a" -> "kArmV7a"
       [] w = "arm64-v8a" -> "kArm64V8a" [] w = "x86" -> "kX86"
       [] w = "x86_64" -> "kX86_64" [] w = "mips" -> "kMips"
       [] w = "mips64" -> "kMips64" [] w = "universal" -> "kUniversal"]

\* kStringToAbiMap.at(text): no value when the text is no key (it throws
\* std::out_of_range).
AbiAt(t) ==
  IF Len(t) = 1 /\ t[1] \in DOMAIN kStringToAbiMap
    THEN Just(kStringToAbiMap[t[1]]) ELSE Nothing

DefaultConfig == [density |-> "", locale |-> "", sdkVersion |-> 0]

\* ConfigDescription::Parse on the qualifier words of the model: the parsed
\* descriptor, or no value when the text does not parse.
ConfigDescriptionParse(t) ==
  IF t = <<"xhdpi">> THEN Just([DefaultConfig EXCEPT !.density = "xhdpi"])
  ELSE IF t = <<"xhdpi-v21">>
    THEN Just([DefaultConfig EXCEPT !.density = "xhdpi", !.sdkVersion = 21])
  ELSE IF t = <<"en">> THEN Just([DefaultConfig EXCEPT !.locale = "en"])
  ELSE IF t = <<"en-v21">>
    THEN Just([DefaultConfig EXCEPT !.locale = "en", !.sdkVersion = 21])
  ELSE IF t = <<"en-xhdpi">>
    THEN Just([DefaultConfig EXCEPT !.locale = "en", !.density = "xhdpi"])
  ELSE Nothing

CopyWithoutSdkVersion(c) == [c EXCEPT !.sdkVersion = 0]

\* ConfigDescription::diff: the configuration bits in which the two differ.
Diff(c, d) ==
  (IF c.density # d.density THEN {"CONFIG_DENSITY"} ELSE {})
  \cup (IF c.locale # d.locale THEN {"CONFIG_LOCALE"} ELSE {})
  \cup (IF c.sdkVersion # d.sdkVersion THEN {"CONFIG_VERSION"} ELSE {})

----------------------------------------------------------------------------
(* The tag handlers.  Each returns the configuration it leaves, the value   *)
(* it returns (ok), the errors it reports, and whether it threw.            *)

\* The attribute loop of ArtifactTagHandler from the i-th attribute on.
RECURSIVE ArtifactAttributes(_, _, _)
ArtifactAttributes(attributes, i, acc) ==
  IF i > Len(attributes) \/ acc.threw THEN acc
  ELSE
    LET attr == attributes[i]
        a == acc.artifact
        next ==
          IF attr.name = "name" THEN [acc EXCEPT !.artifact.name = Just(attr.value)]
          ELSE IF attr.name = "version"
            THEN IF Has(Stoi(attr.value))
                   THEN [acc EXCEPT !.version = Stoi(attr.value),
                                    !.artifact.attr_version = Just(attr.value)]
                   ELSE [acc EXCEPT !.threw = TRUE]
          ELSE IF attr.name = "abi-group"
            THEN [acc EXCEPT !.artifact.abi_group = Just(attr.value)]
          ELSE IF attr.name = "screen-density-group"
            THEN [acc EXCEPT !.artifact.screen_density_group = Just(attr.value)]
          ELSE IF attr.name = "locale-group"
            THEN [acc EXCEPT !.artifact.locale_group = Just(attr.value)]
          ELSE IF attr.name = "android-sdk-group"
            THEN [acc EXCEPT !.artifact.android_sdk_group = Just(attr.value)]
          ELSE IF attr.name = "gl-texture-group"
            THEN [acc EXCEPT !.artifact.gl_texture_group = Just(attr.value)]
          ELSE IF attr.name = "device-feature-group"
            THEN [acc EXCEPT !.artifact.device_feature_group = Just(attr.value)]
          ELSE acc  \* a note
    IN ArtifactAttributes(attributes, i + 1, next)

\* ArtifactTagHandler as it would be if the version went on from the number
\* of artifacts declared, not from the version of the last one.
ArtifactTagHandlerCounting(cfg, root_element) ==
  LET current_version == Len(cfg.artifacts)
      read == ArtifactAttributes(root_element.attributes, 1,
                [artifact |-> [EmptyArtifact EXCEPT !.decl = Len(cfg.artifacts) + 1],
                 version |-> Nothing, threw |-> FALSE])
      artifact == [read.artifact EXCEPT !.version =
                     IF Has(read.version) THEN Val(read.version) ELSE current_version + 1]
  IN IF read.threw
       THEN [config |-> cfg, ok |-> FALSE, errs |-> <<>>, threw |-> TRUE]
       ELSE [config |-> [cfg EXCEPT !.artifacts = Append(@, artifact)],
             ok |-> TRUE, errs |-> <<>>, threw |-> FALSE]

ArtifactTagHandler(cfg, root_element) ==
  LET current_version ==
        IF cfg.artifacts = <<>> THEN 0 ELSE cfg.artifacts[Len(cfg.artifacts)].version
      read == ArtifactAttributes(root_element.attributes, 1,
                [artifact |-> [EmptyArtifact EXCEPT !.decl = Len(cfg.artifacts) + 1],
                 version |-> Nothing, threw |-> FALSE])
      artifact == [read.artifact EXCEPT !.version =
                     IF Has(read.version) THEN Val(read.version) ELSE current_version + 1]
  IN IF read.threw
       THEN [config |-> cfg, ok |-> FALSE, errs |-> <<>>, threw |-> TRUE]
       ELSE [config |-> [cfg EXCEPT !.artifacts = Append(@, artifact)],
             ok |-> TRUE, errs |-> <<>>, threw |-> FALSE]

ArtifactFormatTagHandler(cfg, root_element) ==
  LET t == FirstText(root_element)
  IN [config |-> IF Has(t)
                   THEN [cfg EXCEPT !.artifact_format = Just(TrimWhitespace(Val(t)))]
                   ELSE cfg,
      ok |-> TRUE, errs |-> <<>>, threw |-> FALSE]

\* What a group handler returns when GetLabel found no label.
NoLabel(cfg, labelled) ==
  [config |-> cfg, ok |-> FALSE, errs |-> labelled.errs, threw |-> FALSE]

\* The group as the handler finds it: config->groups[label] inserts an empty
\* list when the label is new.
GroupAt(groups, label) == IF label \in DOMAIN groups THEN groups[label] ELSE <<>>

\* The child loop of AbiGroupTagHandler from the i-th child element on.
RECURSIVE AbiChildren(_, _, _)
AbiChildren(children, i, acc) ==
  IF i > Len(children) \/ acc.threw THEN acc
  ELSE
    LET child == children[i]
        t == FirstText(child)
        next ==
          IF child.name # "abi"
            THEN [acc EXCEPT !.valid = FALSE,
                    !.errs = Append(@, Error("Unexpected element in ABI group",
                                             <<child.name>>))]
          ELSE IF ~Has(t) THEN acc
          ELSE IF Has(AbiAt(TrimWhitespace(Val(t))))
            THEN [acc EXCEPT !.group = Append(@, Val(AbiAt(TrimWhitespace(Val(t)))))]
          ELSE [acc EXCEPT !.threw = TRUE]
    IN AbiChildren(children, i + 1, next)

AbiGroupTagHandler(cfg, root_element) ==
  LET labelled == GetLabel(root_element)
      label == labelled.label
      done == AbiChildren(GetChildElements(root_element), 1,
                [group |-> GroupAt(cfg.abi_groups, label), valid |-> TRUE,
                 errs |-> <<>>, threw |-> FALSE])
  IN IF label = <<>> THEN NoLabel(cfg, labelled)
     ELSE [config |-> [cfg EXCEPT !.abi_groups = Put(@, label, done.group)],
           ok |-> done.valid, errs |-> done.errs, threw |-> done.threw]

\* The child loop shared in shape by ScreenDensityGroupTagHandler and
\* LocaleGroupTagHandler: tag is the child name expected, bit the one
\* configuration bit the entry may differ in.
RECURSIVE ConfigChildren(_, _, _, _, _)
ConfigChildren(children, i, tag, bit, acc) ==
  IF i > Len(children) THEN acc
  ELSE
    LET child == children[i]
        t == FirstText(child)
        text == TrimWhitespace(Val(t))
        parsed == ConfigDescriptionParse(text)
        next ==
          IF child.name # tag
            THEN [acc EXCEPT !.valid = FALSE,
                    !.errs = Append(@, Error("Unexpected root_element in screen density group",
                                             <<child.name>>))]
          ELSE IF ~Has(t) THEN acc
          ELSE IF Has(parsed)
                  /\ Diff(CopyWithoutSdkVersion(Val(parsed)), DefaultConfig) = {bit}
            THEN [acc EXCEPT !.group = Append(@, CopyWithoutSdkVersion(Val(parsed)))]
          ELSE [acc EXCEPT !.valid = FALSE,
                  !.errs = Append(@, Error("Could not parse config descriptor for screen-density",
                                           text))]
    IN ConfigChildren(children, i + 1, tag, bit, next)

ScreenDensityGroupTagHandler(cfg, root_element) ==
  LET labelled == GetLabel(root_element)
      label == labelled.label
      done == ConfigChildren(GetChildElements(root_element), 1, "screen-density",
                "CONFIG_DENSITY",
                [group |-> GroupAt(cfg.screen_density_groups, label), valid |-> TRUE,
                 errs |-> <<>>])
  IN IF label = <<>> THEN NoLabel(cfg, labelled)
     ELSE [config |-> [cfg EXCEPT !.screen_density_groups = Put(@, label, done.group)],
           ok |-> done.valid, errs |-> done.errs, threw |-> FALSE]

LocaleGroupTagHandler(cfg, root_element) ==
  LET labelled == GetLabel(root_element)
      label == labelled.label
      done == ConfigChildren(GetChildElements(root_element), 1, "locale", "CONFIG_LOCALE",
                [group |-> GroupAt(cfg.locale_groups, label), valid |-> TRUE,
                 errs |-> <<>>])
  IN IF label = <<>> THEN NoLabel(cfg, labelled)
     ELSE [config |-> [cfg EXCEPT !.locale_groups = Put(@, label, done.group)],
           ok |-> done.valid, errs |-> done.errs, threw |-> FALSE]

\* The child loop of DeviceFeatureGroupTagHandler from the i-th child on.
RECURSIVE FeatureChildren(_, _, _)
FeatureChildren(children, i, acc) ==
  IF i > Len(children) THEN acc
  ELSE
    LET child == children[i]
        t == FirstText(child)
        next ==
          IF child.name # "supports-feature"
            THEN [acc EXCEPT !.valid = FALSE,
                    !.errs = Append(@, Error("Unexpected root_element in device feature group",
                                             <<child.name>>))]
          ELSE IF ~Has(t) THEN acc
          ELSE [acc EXCEPT !.group = Append(@, TrimWhitespace(Val(t)))]
    IN FeatureChildren(children, i + 1, next)

DeviceFeatureGroupTagHandler(cfg, root_element) ==
  LET labelled == GetLabel(root_element)
      label == labelled.label
      done == FeatureChildren(GetChildElements(root_element), 1,
                [group |-> GroupAt(cfg.device_feature_groups, label), valid |-> TRUE,
                 errs |-> <<>>])
  IN IF label = <<>> THEN NoLabel(cfg, labelled)
     ELSE [config |-> [cfg EXCEPT !.device_feature_groups = Put(@, label, done.group)],
           ok |-> done.valid, errs |-> done.errs, threw |-> FALSE]

\* A default-constructed AndroidSdk entry.
EmptyAndroidSdk ==
  [min_sdk_version |-> Nothing, target_sdk_version |-> Nothing,
   max_sdk_version |-> Nothing, manifest |-> Nothing]

\* The attribute loop of AndroidSdkGroupTagHandler over one android-sdk child.
RECURSIVE SdkAttributes(_, _, _)
SdkAttributes(attributes, i, acc) ==
  IF i > Len(attributes) THEN acc
  ELSE
    LET attr == attributes[i]
        target == IF attr.name = "minSdkVersion" THEN "min_sdk_version"
                  ELSE IF attr.name = "targetSdkVersion" THEN "target_sdk_version"
                  ELSE IF attr.name = "maxSdkVersion" THEN "max_sdk_version"
                  ELSE ""
        value == ParseSdkVersion(attr.value)
        next ==
          IF target = "" THEN acc  \* a warning
          ELSE IF Has(value) THEN [acc EXCEPT !.entry[target] = value]
          ELSE [acc EXCEPT !.entry[target] = value, !.valid = FALSE,
                  !.errs = Append(@, Error("Invalid attribute", attr.value))]
    IN SdkAttributes(attributes, i + 1, next)

\* The child loop of AndroidSdkGroupTagHandler from the i-th child element on.
RECURSIVE SdkChildren(_, _, _, _)
SdkChildren(children, i, label, acc) ==
  IF i > Len(children) THEN acc
  ELSE
    LET child == children[i]
        read == SdkAttributes(child.attributes, 1,
                  [entry |-> EmptyAndroidSdk, valid |-> acc.valid, errs |-> acc.errs])
        manifests == SelectSeq(GetChildElements(child), LAMBDA n : n.name = "manifest")
        entry == IF manifests = <<>> THEN read.entry
                 ELSE [read.entry EXCEPT !.manifest = Just("AndroidManifest")]
        next ==
          IF child.name # "android-sdk"
            THEN [acc EXCEPT !.valid = FALSE,
                    !.errs = Append(@, Error("Unexpected root_element in ABI group",
                                             <<child.name>>))]
          ELSE [groups |-> Put(acc.groups, label, entry),
                valid |-> read.valid /\ ~acc.found,
                found |-> TRUE,
                errs |-> read.errs]
    IN SdkChildren(children, i + 1, label, next)

AndroidSdkGroupTagHandler(cfg, root_element) ==
  LET labelled == GetLabel(root_element)
      label == labelled.label
      done == SdkChildren(GetChildElements(root_element), 1, label,
                [groups |-> cfg.android_sdk_groups, valid |-> TRUE, found |-> FALSE,
                 errs |-> <<>>])
  IN IF label = <<>> THEN NoLabel(cfg, labelled)
     ELSE [config |-> [cfg EXCEPT !.android_sdk_groups = done.groups],
           ok |-> done.valid, errs |-> done.errs, threw |-> FALSE]

\* A default-constructed GlTexture.
EmptyGlTexture == [name |-> <<>>, texture_paths |-> <<>>]

\* The loop over the child elements of one gl-texture element from the i-th
\* on: every text node of a texture-path element is appended to the paths.
RECURSIVE TexturePaths(_, _, _, _)
TexturePaths(elements, i, child, acc) ==
  IF i > Len(elements) THEN acc
  ELSE
    LET element == elements[i]
        texts == SelectSeq(element.children, IsText)
        next ==
          IF element.name # "texture-path"
            THEN [acc EXCEPT !.valid = FALSE,
                    !.errs = Append(@, Error("Unexpected element in gl-texture element",
                                             <<child.name>>))]
          ELSE [acc EXCEPT !.result.texture_paths =
                  @ \o [k \in 1..Len(texts) |-> TrimWhitespace(texts[k].text)]]
    IN TexturePaths(elements, i + 1, child, next)

\* The child loop of GlTextureGroupTagHandler from the i-th child element on.
\* result is declared outside the loop and pushed once per child.
RECURSIVE GlChildren(_, _, _)
GlChildren(children, i, acc) ==
  IF i > Len(children) THEN acc
  ELSE
    LET child == children[i]
        named == FirstAttr(child, "name")
        renamed == IF Has(named) THEN [acc EXCEPT !.result.name = Val(named)] ELSE acc
        read ==
          IF child.name # "gl-texture"
            THEN [acc EXCEPT !.valid = FALSE,
                    !.errs = Append(@, Error("Unexpected element in GL texture group",
                                             <<child.name>>))]
            ELSE TexturePaths(GetChildElements(child), 1, child, renamed)
    IN GlChildren(children, i + 1, [read EXCEPT !.group = Append(@, read.result)])

GlTextureGroupTagHandler(cfg, root_element) ==
  LET labelled == GetLabel(root_element)
      label == labelled.label
      done == GlChildren(GetChildElements(root_element), 1,
                [group |-> GroupAt(cfg.gl_texture_groups, label),
                 result |-> EmptyGlTexture, valid |-> TRUE, errs |-> <<>>])
  IN IF label = <<>> THEN NoLabel(cfg, labelled)
     ELSE [config |-> [cfg EXCEPT !.gl_texture_groups = Put(@, label, done.group)],
           ok |-> done.valid, errs |-> done.errs, threw |-> FALSE]

----------------------------------------------------------------------------
(* Bounds and the documents drawn *)

MaxArtifacts == 2

MaxGroupElements == 1

MaxLen == 2

Label == <<"a">>

RefAttributeNames ==
  {"abi-group", "screen-density-group", "locale-group", "android-sdk-group",
   "gl-texture-group", "device-feature-group"}

\* The artifact elements of the documents: with or without a name and a
\* version and no reference; one reference and either no name (named by the
\* global format) or a name; an unknown attribute; a version that is no number.
ArtifactElements ==
  {Element("artifact", <<Attr("name", <<"b">>)>> \o v, <<>>) :
     v \in {<<>>, <<Attr("version", <<"1">>)>>, <<Attr("version", <<"2">>)>>}}
  \cup {Element("artifact", v, <<>>) :
          v \in {<<>>, <<Attr("version", <<"1">>)>>,
                 <<Attr("version", <<" ", "0", "2", "x">>)>>,
                 <<Attr("version", <<"x">>)>>}}
  \cup {Element("artifact", <<Attr("abi-group", Label)>>, <<>>),
        Element("artifact", <<Attr("colour", <<"a">>), Attr("abi-group", Label)>>, <<>>)}
  \cup {Element("artifact", <<Attr("name", <<"b">>), Attr(r, Label)>>, <<>>) :
          r \in RefAttributeNames}

ArtifactFormatElements ==
  {Element("artifact-format", <<>>, <<>>),
   Element("artifact-format", <<>>, <<Text(<<" ", "${abi}", " ">>)>>),
   Element("artifact-format", <<>>,
           <<Element("b", <<>>, <<>>), Text(<<"${abi}">>), Text(<<"a">>)>>)}

Labelled == <<Attr("label", Label)>>

AbiGroupElements ==
  {Element("abi-group", Labelled,
           <<Element("abi", <<>>, <<Text(<<"x86">>)>>),
             Text(<<" ">>),
             Element("abi", <<>>, <<Text(<<" ", "armeabi", " ">>), Text(<<"mips">>)>>)>>),
   Element("abi-group", Labelled,
           <<Element("abi", <<>>, <<Text(<<"mips">>)>>), Element("b", <<>>, <<>>)>>),
   Element("abi-group", Labelled, <<Element("abi", <<>>, <<Text(<<"arm">>)>>)>>)}

ScreenDensityGroupElements ==
  {Element("screen-density-group", Labelled,
           <<Element("screen-density", <<>>, <<Text(<<"xhdpi-v21">>)>>)>>),
   Element("screen-density-group", Labelled,
           <<Element("screen-density", <<>>, <<Text(<<"en">>)>>)>>)}

LocaleGroupElements ==
  {Element("locale-group", Labelled,
           <<Element("locale", <<>>, <<Text(<<"en-v21">>)>>)>>)}

AndroidSdkGroupElements ==
  {Element("android-sdk-group", Labelled,
           <<Element("android-sdk", <<Attr("minSdkVersion", <<"2", "1">>)>>,
                     <<Element("manifest", <<>>, <<>>)>>)>>),
   Element("android-sdk-group", Labelled, <<>>)}

GlTextureGroupElements ==
  {Element("gl-texture-group", Labelled,
           <<Element("gl-texture", <<Attr("name", <<"t">>)>>,
                     <<Element("texture-path", <<>>, <<Text(<<"p">>)>>)>>)>>)}

DeviceFeatureGroupElements ==
  {Element("device-feature-group", Labelled,
           <<Element("supports-feature", <<>>, <<Text(<<"f">>)>>),
             Element("supports-feature", <<>>, <<Text(<<" ", "g">>)>>)>>),
   Element("device-feature-group", <<Attr("colour", Label)>>,
           <<Element("supports-feature", <<>>, <<Text(<<"f">>)>>)>>)}

ApkPaths == {<<"d", "/", "a", ".", "k">>}

----------------------------------------------------------------------------
(* Parse, from the document to the returned list *)

Init ==
  /\ pc = "start"
  /\ apk_path \in ApkPaths
  /\ config = EmptyConfig
  /\ exec_error = FALSE
  /\ diag = <<>>
  /\ seen = <<>>
  /\ examined = 0
  /\ returned = Nothing

\* ExtractConfiguration up to the executor: the document inflates, its root
\* is there and its namespace is allowed.
Inflate ==
  /\ pc = "start"
  /\ pc' = "extract"
  /\ UNCHANGED <<apk_path, config, exec_error, diag, seen, examined, returned>>

\* ExtractConfiguration returns nothing before any handler runs, and so does
\* Parse: the document does not parse, has no root, or has another namespace.
StructuralFailure ==
  /\ pc = "start"
  /\ \E cause \in {"Could not parse the XML document",
                   "Could not find the root element in the XML document",
                   "Unknown namespace found on root element"} :
       diag' = Append(diag, Error(cause, <<>>))
  /\ pc' = "done"
  /\ returned' = Nothing
  /\ UNCHANGED <<apk_path, config, exec_error, seen, examined>>

\* The executor has run a handler: its errors are reported, a false return
\* sets the executor's error flag, an exception leaves Parse.
Handled(h, group_element) ==
  /\ pc' = IF h.threw THEN "aborted" ELSE "extract"
  /\ config' = h.config
  /\ exec_error' = (exec_error \/ ~h.ok)
  /\ diag' = diag \o h.errs
  /\ seen' = seen \o group_element
  /\ UNCHANGED <<apk_path, examined, returned>>

OnArtifact ==
  /\ pc = "extract"
  /\ Len(config.artifacts) < MaxArtifacts
  /\ \E el \in ArtifactElements : Handled(ArtifactTagHandler(config, el), <<>>)

OnArtifactFormat ==
  /\ pc = "extract"
  /\ \E el \in ArtifactFormatElements : Handled(ArtifactFormatTagHandler(config, el), <<>>)

OnAbiGroup ==
  /\ pc = "extract"
  /\ Len(seen) < MaxGroupElements
  /\ \E el \in AbiGroupElements : Handled(AbiGroupTagHandler(config, el), <<el>>)

OnScreenDensityGroup ==
  /\ pc = "extract"
  /\ Len(seen) < MaxGroupElements
  /\ \E el \in ScreenDensityGroupElements :
       Handled(ScreenDensityGroupTagHandler(config, el), <<el>>)

OnLocaleGroup ==
  /\ pc = "extract"
  /\ Len(seen) < MaxGroupElements
  /\ \E el \in LocaleGroupElements : Handled(LocaleGroupTagHandler(config, el), <<el>>)

OnAndroidSdkGroup ==
  /\ pc = "extract"
  /\ Len(seen) < MaxGroupElements
  /\ \E el \in AndroidSdkGroupElements :
       Handled(AndroidSdkGroupTagHandler(config, el), <<el>>)

OnGlTextureGroup ==
  /\ pc = "extract"
  /\ Len(seen) < MaxGroupElements
  /\ \E el \in GlTextureGroupElements :
       Handled(GlTextureGroupTagHandler(config, el), <<el>>)

OnDeviceFeatureGroup ==
  /\ pc = "extract"
  /\ Len(seen) < MaxGroupElements
  /\ \E el \in DeviceFeatureGroupElements :
       Handled(DeviceFeatureGroupTagHandler(config, el), <<el>>)

\* Parse returns: its value, the errors it reported, the artifacts it examined.
Returns(parsed) ==
  /\ diag' = diag \o parsed.errs
  /\ returned' = parsed.result
  /\ examined' = parsed.examined

\* The executor has walked the whole document: ExtractConfiguration returns
\* the configuration, or nothing when a handler returned false, and Parse
\* goes on to its end.
ParseReturn ==
  /\ pc = "extract"
  /\ pc' = "done"
  /\ Returns(IF exec_error
               THEN [result |-> Nothing,
                     errs |-> <<Error("Could not process XML document", <<>>)>>,
                     examined |-> 0]
               ELSE ParseConfig(config, apk_path))
  /\ UNCHANGED <<apk_path, config, exec_error, seen>>

Next ==
  \/ Inflate
  \/ StructuralFailure
  \/ OnArtifact
  \/ OnArtifactFormat
  \/ OnAbiGroup
  \/ OnScreenDensityGroup
  \/ OnLocaleGroup
  \/ OnAndroidSdkGroup
  \/ OnGlTextureGroup
  \/ OnDeviceFeatureGroup
  \/ ParseReturn

Spec == Init /\ [][Next]_vars

----------------------------------------------------------------------------
(* The name formatter, over every short template: Parse on the              *)
(* configurations of one artifact whose references all resolve.             *)

NameTokens ==
  {"${basename}", "${ext}", "${abi}", "${density}", "${locale}", "${sdk}",
   "${feature}", "${gl}", "a", "."}

Templates == UNION {[1..n -> NameTokens] : n \in 0..MaxLen}

\* The labels of the groups: a plain one, and one that reads as a placeholder.
NameLabels == {<<"a">>, <<"${density}">>}

ReferenceFields == {AxisPlaceholders[k][2] : k \in 1..Len(AxisPlaceholders)}

\* The group references of an artifact: at most two axes are referenced.
References ==
  {r \in [ReferenceFields -> {Nothing} \cup {Just(l) : l \in NameLabels}] :
     Cardinality({f \in ReferenceFields : Has(r[f])}) <= 2}

NameArtifact(n, r) ==
  [name |-> n, version |-> 1,
   abi_group |-> r["abi_group"], screen_density_group |-> r["screen_density_group"],
   locale_group |-> r["locale_group"], android_sdk_group |-> r["android_sdk_group"],
   gl_texture_group |-> r["gl_texture_group"],
   device_feature_group |-> r["device_feature_group"],
   attr_version |-> Nothing, decl |-> 1]

\* The group elements that declare every label on every axis, with no entry
\* (one entry for the SDK), and the registries the handlers build from them.
NameGroupElements ==
  <<Element("abi-group", <<Attr("label", <<"a">>)>>, <<>>),
    Element("abi-group", <<Attr("label", <<"${density}">>)>>, <<>>),
    Element("screen-density-group", <<Attr("label", <<"a">>)>>, <<>>),
    Element("screen-density-group", <<Attr("label", <<"${density}">>)>>, <<>>),
    Element("locale-group", <<Attr("label", <<"a">>)>>, <<>>),
    Element("locale-group", <<Attr("label", <<"${density}">>)>>, <<>>),
    Element("android-sdk-group", <<Attr("label", <<"a">>)>>,
            <<Element("android-sdk", <<>>, <<>>)>>),
    Element("android-sdk-group", <<Attr("label", <<"${density}">>)>>,
            <<Element("android-sdk", <<>>, <<>>)>>),
    Element("gl-texture-group", <<Attr("label", <<"a">>)>>, <<>>),
    Element("gl-texture-group", <<Attr("label", <<"${density}">>)>>, <<>>),
    Element("device-feature-group", <<Attr("label", <<"a">>)>>, <<>>),
    Element("device-feature-group", <<Attr("label", <<"${density}">>)>>, <<>>)>>

NameGroups(entries) == [l \in NameLabels |-> entries]

NameConfig(artifact, format) ==
  [artifacts |-> <<artifact>>, artifact_format |-> format,
   abi_groups |-> NameGroups(<<>>), screen_density_groups |-> NameGroups(<<>>),
   locale_groups |-> NameGroups(<<>>), android_sdk_groups |-> NameGroups(EmptyAndroidSdk),
   gl_texture_groups |-> NameGroups(<<>>), device_feature_groups |-> NameGroups(<<>>)]

\* The artifact has a literal name and there is no global format, or it has
\* none and there is one, or there is neither.
NameConfigs(t, r) ==
  {NameConfig(NameArtifact(Just(t), r), Nothing),
   NameConfig(NameArtifact(Nothing, r), Just(t)),
   NameConfig(NameArtifact(Nothing, r), Nothing)}

NamePaths == {<<"a", ".", "a">>, <<".", "a">>, <<"d", "/", "a", ".">>}

InitName ==
  /\ pc = "extract"
  /\ apk_path \in NamePaths
  /\ \E t \in Templates, r \in References : config \in NameConfigs(t, r)
  /\ exec_error = FALSE
  /\ diag = <<>>
  /\ seen = NameGroupElements
  /\ examined = 0
  /\ returned = Nothing

NextName == ParseReturn

SpecName == InitName /\ [][NextName]_vars

----------------------------------------------------------------------------
(* Properties *)

Artifacts == config.artifacts

Outputs == Val(returned)

ApkName == GetFilename(apk_path)

\* The registry each reference of an artifact is looked up in.
RegistryOf ==
  [f \in ReferenceFields |->
     CASE f = "abi_group" -> "abi_groups"
       [] f = "screen_density_group" -> "screen_density_groups"
       [] f = "locale_group" -> "locale_groups"
       [] f = "android_sdk_group" -> "android_sdk_groups"
       [] f = "gl_texture_group" -> "gl_texture_groups"
       [] f = "device_feature_group" -> "device_feature_groups"]

\* The artifact references a label that its axis's registry does not hold.
Dangling(artifact) ==
  \E f \in ReferenceFields :
    Has(artifact[f]) /\ Val(artifact[f]) \notin DOMAIN config[RegistryOf[f]]

\* The artifact resolves on its own.
Resolves(artifact) == ToOutputArtifact(artifact, ApkName, config).ok

\* C1: Parse is all-or-nothing.  When a declared artifact does not resolve
\* (it references a label its axis's registry does not hold, say), Parse
\* returns no list, whatever the other artifacts do; a returned list holds
\* exactly one OutputArtifact for each declared artifact.
C1_AllOrNothing ==
  pc = "done" =>
    /\ (\E i \in 1..Len(Artifacts) : Dangling(Artifacts[i]) \/ ~Resolves(Artifacts[i]))
         => ~Has(returned)
    /\ Has(returned) =>
         /\ Len(Outputs) = Len(Artifacts)
         /\ \A d \in 1..Len(Artifacts) :
              Cardinality({i \in 1..Len(Outputs) : Outputs[i].decl = d}) = 1

\* Two artifacts with distinct versions, the first with a dangling reference,
\* the second resolving: Parse returned nothing.
C1_Witness ==
  /\ pc = "done"
  /\ ~exec_error
  /\ Len(Artifacts) = 2
  /\ Artifacts[1].version # Artifacts[2].version
  /\ Dangling(Artifacts[1])
  /\ Resolves(Artifacts[2])
  /\ ~Has(returned)

\* Two declared artifacts have the same version.
DuplicateVersions ==
  \E i, j \in 1..Len(Artifacts) : i < j /\ Artifacts[i].version = Artifacts[j].version

\* C2: when two declared artifacts have the same version, given or assigned,
\* Parse returns nothing; every returned list comes from pairwise distinct
\* versions.
C2_DuplicateVersionsFail == pc = "done" /\ DuplicateVersions => ~Has(returned)

\* Two artifacts that each resolve, the first with an assigned version, the
\* second with the same version given: Parse returned nothing.
C2_Witness ==
  /\ pc = "done"
  /\ ~exec_error
  /\ Len(Artifacts) = 2
  /\ ~Has(Artifacts[1].attr_version)
  /\ Has(Artifacts[2].attr_version)
  /\ Artifacts[1].version = Artifacts[2].version
  /\ \A i \in 1..2 : Resolves(Artifacts[i])
  /\ ~Has(returned)

\* The number each version attribute of the documents spells.
SpelledVersion(text) ==
  CASE text = <<"1">> -> 1
    [] text = <<"2">> -> 2
    [] text = <<" ", "0", "2", "x">> -> 2

\* C3: an artifact with a version attribute has that version; the first
\* artifact without one has version 1; a later artifact without one has the
\* version of the artifact declared just before it plus 1.
C3_VersionAssignment ==
  \A i \in 1..Len(Artifacts) :
    IF Has(Artifacts[i].attr_version)
      THEN Artifacts[i].version = SpelledVersion(Val(Artifacts[i].attr_version))
      ELSE IF i = 1 THEN Artifacts[i].version = 1
           ELSE Artifacts[i].version = Artifacts[i - 1].version + 1

\* The first artifact is given version 2, the second is assigned 3.
C3_Witness ==
  /\ Len(Artifacts) = 2
  /\ Artifacts[1].attr_version = Just(<<"2">>)
  /\ ~Has(Artifacts[2].attr_version)
  /\ Artifacts[2].version = 3

----------------------------------------------------------------------------
(* Properties of the name formatter.  Under SpecName there is one artifact. *)

\* The number of occurrences of a token.
Count(s, p) == Cardinality({i \in 1..Len(s) : s[i] = p})

\* The text with every occurrence of a token replaced.
RECURSIVE SubstAll(_, _, _)
SubstAll(s, p, v) ==
  IF s = <<>> THEN <<>>
  ELSE (IF Head(s) = p THEN v ELSE <<Head(s)>>) \o SubstAll(Tail(s), p, v)

\* The artifact has its own name; otherwise it is named from the global format.
Literal(artifact) == Has(artifact.name)

\* The name template that applies to the artifact.
Template(artifact) ==
  IF Literal(artifact) THEN Val(artifact.name) ELSE Val(config.artifact_format)

HasTemplate(artifact) == Literal(artifact) \/ Has(config.artifact_format)

AxisOf(k) == AxisPlaceholders[k][1]

Referenced(artifact, k) == Has(artifact[AxisPlaceholders[k][2]])

\* The format as the k-th axis finds it: the labels of the axes before it
\* stand where their placeholders stood.
RECURSIVE StepName(_, _, _)
StepName(artifact, format, k) ==
  IF k = 1 THEN format
  ELSE IF Referenced(artifact, k - 1)
    THEN SubstAll(StepName(artifact, format, k - 1), AxisOf(k - 1),
                  Val(artifact[AxisPlaceholders[k - 1][2]]))
    ELSE StepName(artifact, format, k - 1)

\* No label the artifact references reads as a placeholder.
PlainLabels(artifact) ==
  \A k \in 1..Len(AxisPlaceholders) :
    Referenced(artifact, k) =>
      \A j \in 1..Len(AxisPlaceholders) :
        Count(Val(artifact[AxisPlaceholders[k][2]]), AxisOf(j)) = 0

\* C4 as the claim states it: an artifact resolves only if each axis
\* placeholder occurs in its applicable template (its own name, else the
\* global format) exactly when the artifact references the axis.
C4_TemplateContract ==
  pc = "done" /\ Has(returned) =>
    \A i \in 1..Len(Artifacts) : \A k \in 1..Len(AxisPlaceholders) :
      Count(Template(Artifacts[i]), AxisOf(k)) > 0 <=> Referenced(Artifacts[i], k)

\* C4, amended: an artifact named from the global format resolves only if
\* each axis placeholder occurs, once, in the name as its axis finds it
\* exactly when the artifact references the axis; with labels that do not
\* read as placeholders that is the format itself.  An artifact with its own
\* name is outside the contract: the axis placeholders of its name are not
\* looked at and stay in the resolved name.
C4_FormatContract ==
  pc = "done" /\ Has(returned) =>
    \A i \in 1..Len(Artifacts) : \A k \in 1..Len(AxisPlaceholders) :
      IF Literal(Artifacts[i])
        THEN \E o \in 1..Len(Outputs) :
               /\ Outputs[o].decl = Artifacts[i].decl
               /\ Count(Outputs[o].name, AxisOf(k)) =
                    Count(Val(Artifacts[i].name), AxisOf(k))
        ELSE /\ Count(StepName(Artifacts[i], Val(config.artifact_format), k), AxisOf(k))
                  = (IF Referenced(Artifacts[i], k) THEN 1 ELSE 0)
             /\ PlainLabels(Artifacts[i]) =>
                  (Count(Val(config.artifact_format), AxisOf(k)) > 0
                     <=> Referenced(Artifacts[i], k))

\* An artifact named from the format references two axes, the format holds
\* the two placeholders, and Parse returned its name.
C4_Witness ==
  /\ pc = "done"
  /\ Has(returned)
  /\ ~Literal(Artifacts[1])
  /\ Has(Artifacts[1].abi_group)
  /\ Has(Artifacts[1].gl_texture_group)
  /\ Count(Val(config.artifact_format), "${abi}") = 1
  /\ Count(Val(config.artifact_format), "${gl}") = 1

Placeholders == {"${basename}", "${ext}"} \cup {AxisOf(k) : k \in 1..Len(AxisPlaceholders)}

\* C5 as the claim states it: a name template, the artifact's own name or the
\* global format, in which a placeholder occurs more than once is rejected.
C5_RepeatedRejected ==
  pc = "done" =>
    \A i \in 1..Len(Artifacts) :
      (/\ HasTemplate(Artifacts[i])
       /\ \E p \in Placeholders : Count(Template(Artifacts[i]), p) > 1)
        => ~Has(returned)

\* C5, amended: a global format in which any of the eight placeholders occurs
\* more than once is rejected for every artifact named from it, whether or
\* not there is a value; an artifact's own name is rejected when the base
\* name or the extension placeholder occurs in it more than once, and its
\* axis placeholders are not counted.
C5_RepeatedInFormatRejected ==
  pc = "done" =>
    \A i \in 1..Len(Artifacts) :
      (/\ HasTemplate(Artifacts[i])
       /\ \E p \in (IF Literal(Artifacts[i]) THEN {"${basename}", "${ext}"}
                    ELSE Placeholders) :
            Count(Template(Artifacts[i]), p) > 1)
        => ~Has(returned)

\* The format holds the ABI placeholder twice, the artifact named from it
\* references an ABI group, and Parse reported the repetition and returned
\* nothing.
C5_Witness ==
  /\ pc = "done"
  /\ ~Literal(Artifacts[1])
  /\ Has(config.artifact_format)
  /\ Count(Val(config.artifact_format), "${abi}") = 2
  /\ Has(Artifacts[1].abi_group)
  /\ \E e \in 1..Len(diag) : diag[e] = Error("Placeholder present multiple times",
                                              <<"${abi}">>)
  /\ ~Has(returned)

\* The extension of the input file name, from its first dot on, and the text
\* before it.
InputDot == CHOOSE i \in 1..Len(ApkName) :
              ApkName[i] = "." /\ \A j \in 1..(i - 1) : ApkName[j] # "."

InputExt == SubSeq(ApkName, InputDot, Len(ApkName))

InputBase == SubSeq(ApkName, 1, InputDot - 1)

\* The name with the base name in place.
Based(t) == SubstAll(t, "${basename}", InputBase)

Suffixed(s, e) == Len(e) <= Len(s) /\ \A j \in 1..Len(e) : s[Len(s) - Len(e) + j] = e[j]

\* C6: for an input file name with an extension, a name that holds the
\* extension placeholder has it replaced by the extension without its dot
\* and nothing appended; a name that does not has the extension, dot
\* included, appended exactly when it does not end in it already.  Input
\* "app.apk" with "out-${basename}" gives "out-app.apk".
C6_Extension ==
  /\ ToBaseName(<<"o", "u", "t", "-", "${basename}">>, <<"a", "p", "p", ".", "a", "p", "k">>)
       = [ok |-> TRUE, name |-> <<"o", "u", "t", "-", "a", "p", "p", ".", "a", "p", "k">>,
          errs |-> <<>>]
  /\ pc = "done" /\ Has(returned) /\ Literal(Artifacts[1]) =>
       Outputs[1].name =
         IF Count(Val(Artifacts[1].name), "${ext}") > 0
           THEN SubstAll(Based(Val(Artifacts[1].name)), "${ext}", Tail(InputExt))
           ELSE IF Suffixed(Based(Val(Artifacts[1].name)), InputExt)
                  THEN Based(Val(Artifacts[1].name))
                  ELSE Based(Val(Artifacts[1].name)) \o InputExt

\* A name with the base name placeholder and no extension: the extension was
\* appended.
C6_Witness ==
  /\ pc = "done"
  /\ Has(returned)
  /\ Artifacts[1].name = Just(<<"a", "${basename}">>)
  /\ ApkName = <<"a", ".", "a">>
  /\ Outputs[1].name = <<"a", "a", ".", "a">>

----------------------------------------------------------------------------
(* Properties of the resolved artifacts *)

\* The declared artifact an OutputArtifact was resolved from.
SourceOf(output_artifact) == Artifacts[output_artifact.decl]

\* The list axes: the group element, the reference of the artifact, the list
\* of the OutputArtifact.
ListAxes ==
  {<<"abi-group", "abi_group", "abis">>,
   <<"locale-group", "locale_group", "locales">>,
   <<"screen-density-group", "screen_density_group", "screen_densities">>,
   <<"device-feature-group", "device_feature_group", "features">>,
   <<"gl-texture-group", "gl_texture_group", "textures">>}

\* The entries that the well-formed group element of each list axis declares,
\* in the order of the document.
WellFormedEntries ==
  [n \in {ax[1] : ax \in ListAxes} |->
     CASE n = "abi-group" -> <<"kX86", "kArmeV6">>
       [] n = "locale-group" -> <<[density |-> "", locale |-> "en", sdkVersion |-> 0]>>
       [] n = "screen-density-group" ->
            <<[density |-> "xhdpi", locale |-> "", sdkVersion |-> 0]>>
       [] n = "device-feature-group" -> << <<"f">>, <<"g">> >>
       [] n = "gl-texture-group" -> <<[name |-> <<"t">>, texture_paths |-> << <<"p">> >>]>>]

\* The entries declared under the label by the group elements of one axis,
\* in the order of the document.  Every group element of the documents that
\* has a label has the same one.
RECURSIVE DeclaredIn(_, _)
DeclaredIn(elements, n) ==
  IF elements = <<>> THEN <<>>
  ELSE (IF Head(elements).name = n THEN WellFormedEntries[n] ELSE <<>>)
       \o DeclaredIn(Tail(elements), n)

C8_DeclarationOrder ==
  pc = "done" /\ Has(returned) =>
    \A i \in 1..Len(Outputs) : Outputs[i].decl = i

\* C8, amended: a returned list holds one OutputArtifact for each declared
\* artifact, in ascending order of the versions of the artifacts; that is the
\* declaration order exactly when the versions ascend in declaration order.
C8_VersionOrder ==
  pc = "done" /\ Has(returned) =>
    /\ Len(Outputs) = Len(Artifacts)
    /\ \A i, j \in 1..Len(Outputs) :
         i < j => SourceOf(Outputs[i]).version < SourceOf(Outputs[j]).version
    /\ (\A i \in 1..Len(Outputs) : Outputs[i].decl = i)
         <=> (\A i, j \in 1..Len(Artifacts) :
                i < j => Artifacts[i].version < Artifacts[j].version)

\* The second declared artifact has the lower version and comes first in the
\* returned list.
C8_Witness ==
  /\ pc = "done"
  /\ Has(returned)
  /\ Len(Outputs) = 2
  /\ Artifacts[2].version < Artifacts[1].version
  /\ Outputs[1].decl = 2
  /\ Outputs[2].decl = 1

\* C9: an artifact with its own name is named from it, an artifact without
\* one from the global format; when an artifact has no name and there is no
\* global format, Parse returns nothing.  (No name of the documents ends in
\* the extension of the input, so each resolved name ends in the extension
\* appended; the format's one placeholder is replaced by the label.)
C9_NameSource ==
  pc = "done" =>
    /\ (\E i \in 1..Len(Artifacts) : ~HasTemplate(Artifacts[i])) => ~Has(returned)
    /\ Has(returned) =>
         \A o \in 1..Len(Outputs) :
           IF Literal(SourceOf(Outputs[o]))
             THEN Outputs[o].name = Val(SourceOf(Outputs[o]).name) \o InputExt
             ELSE /\ Has(config.artifact_format)
                  /\ Outputs[o].name =
                       SubstAll(Val(config.artifact_format), "${abi}", Label) \o InputExt

\* A returned list of two: one artifact named from its own name while there
\* is a global format, one named from the format.
C9_Witness ==
  /\ pc = "done"
  /\ Has(returned)
  /\ Len(Outputs) = 2
  /\ Has(config.artifact_format)
  /\ \E o, q \in 1..2 :
       /\ Literal(SourceOf(Outputs[o])) /\ Outputs[o].name = <<"b", ".", "k">>
       /\ ~Literal(SourceOf(Outputs[q])) /\ Outputs[q].name = <<"a", ".", "k">>

\* Parse returned on a structural failure of the document.
Structural ==
  /\ Len(diag) = 1
  /\ diag[1].msg \in {"Could not parse the XML document",
                      "Could not find the root element in the XML document",
                      "Unknown namespace found on root element"}

\* The error of each lookup of ToOutputArtifact.
LookupMessage ==
  [f \in ReferenceFields |->
     CASE f = "abi_group" -> "Could not lookup required ABIs"
       [] f = "screen_density_group" -> "Could not lookup required screen densities"
       [] f = "locale_group" -> "Could not lookup required locales"
       [] f = "android_sdk_group" -> "Could not lookup required Android SDK version"
       [] f = "gl_texture_group" -> "Could not lookup required OpenGL texture formats"
       [] f = "device_feature_group" -> "Could not lookup required device features"]

Reported(e) == \E k \in 1..Len(diag) : diag[k] = e

\* C10: when Parse fails on schema or semantic issues, every declared
\* artifact has been examined and every issue has been reported: duplicate
\* versions, each reference to a label its registry does not hold, an
\* artifact with no name template.
C10_AllIssuesReported ==
  pc = "done" /\ ~Has(returned) /\ ~Structural =>
    /\ examined = Len(Artifacts)
    /\ DuplicateVersions => Reported(Error("Configuration has duplicate versions", <<>>))
    /\ \A i \in 1..Len(Artifacts) :
         /\ ~HasTemplate(Artifacts[i]) =>
              Reported(Error("Artifact does not have a name and no global name template defined",
                             <<>>))
         /\ \A f \in ReferenceFields :
              Has(Artifacts[i][f]) /\ Val(Artifacts[i][f]) \notin DOMAIN config[RegistryOf[f]]
                => Reported(Error(LookupMessage[f], Val(Artifacts[i][f])))

----------------------------------------------------------------------------
(* The texture group handler, over every short gl-texture-group element *)

MaxChildren == 2

TextureLabels == {<<"a">>, <<"c">>}

\* The children of a gl-texture-group element: a texture with one path,
\* another texture with another path, a texture with no path, a texture with
\* no name, an element that is no gl-texture.
TextureChildren ==
  {Element("gl-texture", <<Attr("name", <<"t">>)>>,
           <<Element("texture-path", <<>>, <<Text(<<"p">>)>>)>>),
   Element("gl-texture", <<Attr("name", <<"u">>)>>,
           <<Element("texture-path", <<>>, <<Text(<<" ", "q">>)>>)>>),
   Element("gl-texture", <<Attr("name", <<"u">>)>>, <<>>),
   Element("gl-texture", <<>>, <<Element("texture-path", <<>>, <<Text(<<"p">>)>>)>>),
   Element("b", <<>>, <<>>)}

TextureGroupElements ==
  {Element("gl-texture-group", <<Attr("label", l)>>, children) :
     l \in TextureLabels,
     children \in UNION {[1..n -> TextureChildren] : n \in 0..MaxChildren}}

InitGl ==
  /\ pc = "extract"
  /\ apk_path \in ApkPaths
  /\ config = EmptyConfig
  /\ exec_error = FALSE
  /\ diag = <<>>
  /\ seen = <<>>
  /\ examined = 0
  /\ returned = Nothing

OnTextureGroup ==
  /\ pc = "extract"
  /\ Len(seen) < MaxGroupElements
  /\ \E el \in TextureGroupElements :
       Handled(GlTextureGroupTagHandler(config, el), <<el>>)

NextGl ==
  \/ OnTextureGroup
  \/ ParseReturn

SpecGl == InitGl /\ [][NextGl]_vars

\* The texture a gl-texture child declares: its name attribute and the texts
\* of its own texture-path elements.
DeclaredTexture(child) ==
  [name |-> IF \E i \in 1..Len(child.attributes) : child.attributes[i].name = "name"
              THEN Val(FirstAttr(child, "name")) ELSE <<>>,
   texture_paths |->
     [i \in 1..Len(child.children) |-> TrimWhitespace(child.children[i].children[1].text)]]

\* The textures the gl-texture children of the elements declare under the
\* label, in the order of the document.
RECURSIVE DeclaredTexturesOf(_)
DeclaredTexturesOf(children) ==
  IF children = <<>> THEN <<>>
  ELSE (IF Head(children).name = "gl-texture"
          THEN <<DeclaredTexture(Head(children))>> ELSE <<>>)
       \o DeclaredTexturesOf(Tail(children))

RECURSIVE DeclaredTextures(_, _)
DeclaredTextures(elements, label) ==
  IF elements = <<>> THEN <<>>
  ELSE (IF Head(elements).attributes[1].value = label
          THEN DeclaredTexturesOf(Head(elements).children) ELSE <<>>)
       \o DeclaredTextures(Tail(elements), label)

\* C11: after GlTextureGroupTagHandler, the list under the label has gained
\* one entry for each gl-texture child, in the order of the children, and
\* each entry holds the name of its child and the texture-path texts of that
\* child only; a child that is no gl-texture adds no entry.  Stated for the
\* elements the handler accepts, whose children are all gl-texture elements.
C11_OneTexturePerChild ==
  ~exec_error =>
    \A label \in TextureLabels :
      GroupAt(config.gl_texture_groups, label) = DeclaredTextures(seen, label)

----------------------------------------------------------------------------
(* Properties of the SDK and ABI group handlers, under Spec *)

\* The android-sdk children of an element.
SdkEntriesOf(el) ==
  Cardinality({k \in 1..Len(el.children) : el.children[k].name = "android-sdk"})

\* The android-sdk children that the android-sdk-group elements seen declare
\* under the label.
RECURSIVE SdkEntriesUnder(_, _)
SdkEntriesUnder(elements, label) ==
  IF elements = <<>> THEN 0
  ELSE (IF Head(elements).name = "android-sdk-group"
           /\ FirstAttr(Head(elements), "label") = Just(label)
          THEN SdkEntriesOf(Head(elements)) ELSE 0)
       + SdkEntriesUnder(Tail(elements), label)

\* C12: when the document has been processed and no handler reported a
\* failure, every label an android-sdk-group element declares has exactly one
\* android-sdk entry: one was declared under it, and the registry holds it.
C12_OneSdkEntryPerLabel ==
  pc = "done" /\ ~exec_error =>
    \A i \in 1..Len(seen) :
      seen[i].name = "android-sdk-group" =>
        /\ SdkEntriesUnder(seen, Val(FirstAttr(seen[i], "label"))) = 1
        /\ Val(FirstAttr(seen[i], "label")) \in DOMAIN config.android_sdk_groups

\* The abi-group elements seen that hold an abi child whose text is no known
\* architecture.
UnknownAbi(el) ==
  /\ el.name = "abi-group"
  /\ \E k \in 1..Len(el.children) :
       /\ el.children[k].name = "abi"
       /\ Has(FirstText(el.children[k]))
       /\ ~(\E w \in DOMAIN kStringToAbiMap :
              TrimWhitespace(Val(FirstText(el.children[k]))) = <<w>>)

\* C13: an abi child whose text is no known architecture is a schema
\* violation like the others: the handler reports an error and returns
\* false, the document is processed to its end, and Parse returns nothing;
\* Parse is not left by an exception of the lookup.
C13_UnknownAbiReported ==
  \A i \in 1..Len(seen) :
    UnknownAbi(seen[i]) =>
      /\ pc # "aborted"
      /\ exec_error
      /\ diag # <<>>
      /\ pc = "done" => ~Has(returned)

----------------------------------------------------------------------------
(* The name ToArtifactName gives, under SpecName *)

\* The format after the base name and extension handling.
Extended(t) ==
  IF Count(t, "${ext}") > 0 THEN SubstAll(Based(t), "${ext}", Tail(InputExt))
  ELSE IF Suffixed(Based(t), InputExt) THEN Based(t)
  ELSE Based(t) \o InputExt

\* The label that stands for a token: the label the artifact references on
\* the axis whose placeholder the token is, else the token.
LabelFor(artifact, token) ==
  IF \E k \in 1..Len(AxisPlaceholders) : AxisOf(k) = token /\ Referenced(artifact, k)
    THEN Val(artifact[AxisPlaceholders[
           CHOOSE k \in 1..Len(AxisPlaceholders) : AxisOf(k) = token][2]])
    ELSE <<token>>

\* The text with every axis placeholder of the text replaced by its label.
RECURSIVE SubstLabels(_, _)
SubstLabels(artifact, s) ==
  IF s = <<>> THEN <<>>
  ELSE LabelFor(artifact, Head(s)) \o SubstLabels(artifact, Tail(s))

\* C14 as the claim states it: the name of an artifact named from the global
\* format is the format with each axis placeholder replaced by the label the
\* artifact references on the axis, and holds no axis placeholder.
C14_NoPlaceholderLeft ==
  pc = "done" /\ Has(returned) /\ ~Literal(Artifacts[1]) =>
    /\ Outputs[1].name = SubstLabels(Artifacts[1], Extended(Val(config.artifact_format)))
    /\ \A k \in 1..Len(AxisPlaceholders) : Count(Outputs[1].name, AxisOf(k)) = 0

\* C14, amended: the name is the format, after the base name and extension
\* handling, in which the axes in their order (abi, density, locale, sdk,
\* feature, gl) have each had their placeholder replaced by the label
\* referenced, the text of the labels before included.  When no referenced
\* label reads as a placeholder, that is the format with each placeholder
\* replaced by its label, and no axis placeholder is left.
C14_LabelsInOrder ==
  pc = "done" /\ Has(returned) /\ ~Literal(Artifacts[1]) =>
    /\ Outputs[1].name =
         StepName(Artifacts[1], Extended(Val(config.artifact_format)),
                  Len(AxisPlaceholders) + 1)
    /\ PlainLabels(Artifacts[1]) =>
         /\ Outputs[1].name =
              SubstLabels(Artifacts[1], Extended(Val(config.artifact_format)))
         /\ \A k \in 1..Len(AxisPlaceholders) : Count(Outputs[1].name, AxisOf(k)) = 0

\* The format holds the ABI and the locale placeholder, the locale label
\* reads as the density placeholder, and the name holds the two labels.
C14_Witness ==
  /\ pc = "done"
  /\ Has(returned)
  /\ ~Literal(Artifacts[1])
  /\ config.artifact_format = Just(<<"${abi}", "${locale}">>)
  /\ Artifacts[1].abi_group = Just(<<"a">>)
  /\ Artifacts[1].locale_group = Just(<<"${density}">>)
  /\ Outputs[1].name = <<"a", "${density}">> \o InputExt

====
